---- MODULE Spec2Model ----
(***************************************************************************)
(* The negotiation hub of radius-demo: the WebSocket server                *)
(* (src/unnamed/part_005, imported as ./server/server) and the negotiation *)
(* rules (src/unnamed/part_010, imported as ../negotiation/rules).         *)
(*                                                                         *)
(* Every handler runs to completion on the Node event loop, so each        *)
(* handler is one action.  A handler is written as a function from the     *)
(* hub's state H (the module-level Maps and arrays of the two files plus   *)
(* the frames written to sockets during the handler) to the state it       *)
(* leaves behind.                                                          *)
(***************************************************************************)
EXTENDS Integers, Sequences, FiniteSets, TLC

VARIABLES
    clients,         \* part_005:66   Map<WebSocket, {...}>, in insertion order
    activeOffers,    \* part_005:76   Map<string, OfferMsg>
    activeInvoices,  \* part_010:13   Map<string, Invoice>
    transactions,    \* part_005:79   the transaction log
    now,             \* Date.now()
    sent,            \* the frames written to sockets by the last handler
    last,            \* the last handler that ran and its input
    settledCount,    \* history: payments that passed validation since start/reset
    acceptedLive,    \* history: ids with a validated ACCEPT not yet settled/expired
    settledPay,      \* history: per id, the PAY that settled it (until re-offered/re-accepted)
    everExpired,     \* history: ids whose invoice the expiry sweep has deleted
    orphaned,        \* history: per id, "orphaned" once a connection bound to the buyer of
                     \* its stored invoice has gone, "settledLater" once a PAY settled it
    unacked,         \* history: the sockets probed by the last heartbeat sweep that
                     \* have sent no pong since
    roster,          \* part_005:542-610  the roster request whose balance lookup is pending
    agent            \* part_006, baseAgent.ts  an AI agent, the frames in flight to
                     \* and from it and its payments under way

vars == <<clients, activeOffers, activeInvoices, transactions, now, sent, last,
          settledCount, acceptedLive, settledPay, everExpired, orphaned, unacked,
          roster, agent>>

----------------------------------------------------------------------------
(* JavaScript values *)

\* A field that is missing from a frame, or a variable holding undefined.
UNDEF == "undefined"

\* !s for a string-or-undefined value
Falsy(s) == s \in {UNDEF, ""}

\* A price is a number or is missing / not a number.
Num(v) == [isNumber |-> TRUE, value |-> v]
NotANumber == [isNumber |-> FALSE, value |-> 0]

\* price <= 0 : a comparison with undefined or NaN is false
LeqZero(p) == p.isNumber /\ p.value <= 0

\* `${price}`
PriceStr(p) ==
    IF ~p.isNumber THEN UNDEF
    ELSE CASE p.value = 0 -> "0" [] p.value = 1 -> "1" [] p.value = 2 -> "2"
           [] p.value = -1 -> "-1" [] OTHER -> "n"

\* sender argument left out
NoWs == 0

----------------------------------------------------------------------------
(* Frames (src/unnamed/part_009) *)

OfferMsg(id, price, skill, from) ==
    [t |-> "OFFER", id |-> id, price |-> price, skill |-> skill, from |-> from]
AcceptMsg(id, from) == [t |-> "ACCEPT", id |-> id, from |-> from]
PayMsg(id, tx, from) == [t |-> "PAY", id |-> id, tx |-> tx, from |-> from]
ChatMsg(text, from) == [t |-> "CHAT", text |-> text, from |-> from]
InvoiceMsg(id, buyer, seller, price, skill, from) ==
    [t |-> "INVOICE", id |-> id, buyer |-> buyer, seller |-> seller,
     price |-> price, skill |-> skill, from |-> from]

\* `undefined` where an OfferMsg / Invoice is expected (Map.get of a missing key)
NoOffer == [t |-> UNDEF]
NoInvoice == [id |-> UNDEF]

----------------------------------------------------------------------------
(* Bounds of the model and program constants *)

\* connections that may be registered at the same time
MaxConns == 2
\* the same, in the specification with every operation of the hub
MaxOpsConns == 1
\* length of the transaction log at which no further payment is settled
MaxTx == 2
\* the clock runs from 0 to MaxTicks * expiryTime, in steps of expiryTime
MaxTicks == 2

\* part_010:113
expiryTime == 10 * 60 * 1000

----------------------------------------------------------------------------
(* Map helpers *)

Has(m, k) == k \in DOMAIN m
MapSet(m, k, v) == [x \in DOMAIN m \cup {k} |-> IF x = k THEN v ELSE m[x]]
MapDelete(m, k) == [x \in DOMAIN m \ {k} |-> m[x]]
EmptyMap == [x \in {} |-> UNDEF]

\* clients.get(ws): the position of ws in the clients Map, 0 when absent
ClientIdx(cs, ws) ==
    IF \E i \in 1..Len(cs) : cs[i].ws = ws
    THEN CHOOSE i \in 1..Len(cs) : cs[i].ws = ws
    ELSE 0

\* clients.delete(ws)
ClientsDelete(cs, ws) == SelectSeq(cs, LAMBDA c : c.ws # ws)

\* `if (client && !client.address) client.address = from`
bindAddress(cs, ws, from) ==
    LET i == ClientIdx(cs, ws) IN
    IF i # 0 /\ Falsy(cs[i].address)
    THEN [cs EXCEPT ![i].address = from]
    ELSE cs

----------------------------------------------------------------------------
(* Friendly names, part_005:28-53 *)

adjectives ==
    <<"Swift", "Clever", "Bright", "Expert", "Skilled",
      "Creative", "Talented", "Brilliant", "Resourceful", "Innovative">>
agentTypes ==
    <<"Developer", "Designer", "Marketer", "Writer", "Analyst",
      "Consultant", "Strategist", "Researcher", "Engineer", "Artist">>

\* an address of the form that handleChat looks for in the text of a system
\* CHAT, /0x[a-fA-F0-9]{40}/
HexAddress == "0x00000000000000000000000000000000000000a1"

\* char.charCodeAt(0) of each character of an address of the model
charCodes(address) ==
    CASE address = "A" -> <<65>>
      [] address = "B" -> <<66>>
      [] address = "C" -> <<67>>
      [] address = "system" -> <<115, 121, 115, 116, 101, 109>>
      [] address = HexAddress -> <<48, 120>> \o [i \in 1..38 |-> 48] \o <<97, 49>>
      [] OTHER -> <<>>

RECURSIVE SumSeq(_)
SumSeq(s) == IF s = <<>> THEN 0 ELSE Head(s) + SumSeq(Tail(s))

generateAgentName(address) ==
    LET hashValue == SumSeq(charCodes(address))
        adjIndex == hashValue % Len(adjectives)
        typeIndex == (hashValue * 13) % Len(agentTypes)
    IN adjectives[adjIndex + 1] \o " " \o agentTypes[typeIndex + 1]

\* `client?.name || generateAgentName(from)` for the client of ws
nameOrGenerated(cs, ws, from) ==
    LET i == ClientIdx(cs, ws) IN
    IF i # 0 /\ ~Falsy(cs[i].name) THEN cs[i].name ELSE generateAgentName(from)

----------------------------------------------------------------------------
(* Negotiation rules, src/unnamed/part_010 *)

validateOffer(offer) ==
    ~(Falsy(offer.id) \/ Falsy(offer.skill) \/ LeqZero(offer.price) \/ Falsy(offer.from))

validateAccept(accept, offer) ==
    IF offer = NoOffer THEN FALSE
    ELSE IF accept.from = offer.from THEN FALSE
    ELSE TRUE

createInvoiceOwnSeller(invoices, offer, acceptedBy) ==
    LET invoice == [id |-> offer.id, buyer |-> offer.from, seller |-> offer.from,
                    price |-> offer.price, skill |-> offer.skill, timestamp |-> now]
    IN [invoice |-> invoice, activeInvoices |-> MapSet(invoices, offer.id, invoice)]

createInvoiceSwapped(invoices, offer, acceptedBy) ==
    LET invoice == [id |-> offer.id, buyer |-> acceptedBy, seller |-> offer.from,
                    price |-> offer.price, skill |-> offer.skill, timestamp |-> now]
    IN [invoice |-> invoice, activeInvoices |-> MapSet(invoices, offer.id, invoice)]

\* the invoice built and the Map after activeInvoices.set
createInvoice(invoices, offer, acceptedBy) ==
    LET invoice == [id |-> offer.id, buyer |-> offer.from, seller |-> acceptedBy,
                    price |-> offer.price, skill |-> offer.skill, timestamp |-> now]
    IN [invoice |-> invoice, activeInvoices |-> MapSet(invoices, offer.id, invoice)]

validatePaymentAnyPayer(pay, invoice) ==
    IF invoice = NoInvoice THEN FALSE
    ELSE IF Falsy(pay.tx) THEN FALSE
    ELSE TRUE

validatePayment(pay, invoice) ==
    IF invoice = NoInvoice THEN FALSE
    ELSE IF pay.from # invoice.buyer THEN FALSE
    ELSE IF Falsy(pay.tx) THEN FALSE
    ELSE TRUE

completeInvoiceKeeps(invoices, invoiceId) == invoices

\* the Map after completeInvoice(invoiceId)
completeInvoice(invoices, invoiceId) ==
    IF Has(invoices, invoiceId) THEN MapDelete(invoices, invoiceId) ELSE invoices

getInvoice(invoices, id) == IF Has(invoices, id) THEN invoices[id] ELSE NoInvoice

isExpiredAtTtl(invoice, t) == t - invoice.timestamp >= expiryTime

\* whether the sweep running at time t deletes the invoice
isExpired(invoice, t) == t - invoice.timestamp > expiryTime

cleanupExpiredFirst(invoices, t) ==
    LET expired == {id \in DOMAIN invoices : isExpired(invoices[id], t)}
        kept == IF expired = {} THEN DOMAIN invoices
                ELSE DOMAIN invoices \ {CHOOSE id \in expired : TRUE}
    IN [id \in kept |-> invoices[id]]

\* the Map after cleanupExpiredInvoices() run at time t
cleanupExpiredInvoices(invoices, t) ==
    LET kept == {id \in DOMAIN invoices : ~isExpired(invoices[id], t)}
    IN [id \in kept |-> invoices[id]]

----------------------------------------------------------------------------
(* Fanout, part_005:110-167.  H is the hub state inside a handler. *)

Hub == [clients |-> clients, activeOffers |-> activeOffers,
        activeInvoices |-> activeInvoices, transactions |-> transactions,
        sent |-> <<>>]

\* ws.send(JSON.stringify(message)) inside try/catch for each target: a send
\* that throws delivers nothing and the loop goes on
Deliveries(targets, message) ==
    LET reached == SelectSeq(targets, LAMBDA c : ~c.sendThrows)
    IN [i \in 1..Len(reached) |-> [to |-> reached[i].ws, msg |-> message]]

spectatorKinds == {"CHAT", "OFFER", "ACCEPT", "PAY"}

broadcastTargetAgents(c, message, sender) ==
    /\ c.ws # sender
    /\ c.readyState = "OPEN"
    /\ c.connectionType = "agent"

broadcastTargetEcho(c, message, sender) ==
    /\ c.readyState = "OPEN"
    /\ (c.connectionType = "spectator" => message.t \in spectatorKinds)

broadcastTarget(c, message, sender) ==
    /\ c.ws # sender
    /\ c.readyState = "OPEN"
    /\ (c.connectionType = "spectator" => message.t \in spectatorKinds)

broadcast(H, message, sender) ==
    LET targets == SelectSeq(H.clients, LAMBDA c : broadcastTarget(c, message, sender))
    IN [H EXCEPT !.sent = @ \o Deliveries(targets, message)]

agentTarget(c, sender) ==
    c.ws # sender /\ c.readyState = "OPEN" /\ c.connectionType = "agent"

broadcastToAgents(H, message, sender) ==
    LET targets == SelectSeq(H.clients, LAMBDA c : agentTarget(c, sender))
    IN [H EXCEPT !.sent = @ \o Deliveries(targets, message)]

sendToAddressAnyRole(H, address, message) ==
    LET targets == SelectSeq(H.clients, LAMBDA c :
                       c.address = address /\ c.readyState = "OPEN")
    IN [H EXCEPT !.sent = @ \o Deliveries(SubSeq(targets, 1, IF targets = <<>> THEN 0 ELSE 1),
                                          message)]

\* the loop returns after the first send
sendToAddress(H, address, message) ==
    LET targets == SelectSeq(H.clients, LAMBDA c :
                       c.address = address /\ c.readyState = "OPEN"
                       /\ c.connectionType = "agent")
    IN [H EXCEPT !.sent = @ \o Deliveries(SubSeq(targets, 1, IF targets = <<>> THEN 0 ELSE 1),
                                          message)]

----------------------------------------------------------------------------
(* Frame handlers, part_005:170-412 *)

handleOffer(H, offer, ws) ==
    IF ~validateOffer(offer) THEN H
    ELSE
      LET cs == bindAddress(H.clients, ws, offer.from)
          agentName == nameOrGenerated(cs, ws, offer.from)
          H1 == [H EXCEPT !.clients = cs,
                          !.activeOffers = MapSet(@, offer.id, offer)]
          H2 == broadcastToAgents(H1, offer, ws)
          spectatorMsg == ChatMsg(agentName \o " offered " \o PriceStr(offer.price)
                                  \o " for skill: " \o offer.skill, "system")
      IN broadcast(H2, spectatorMsg, ws)

\* the name used for the offering agent in the ACCEPT narration, part_005:222-230
offerorNameOf(cs, offer) ==
    LET bound == SelectSeq(cs, LAMBDA c : c.address = offer.from)
    IN IF bound = <<>> THEN offer.from \o "..."
       ELSE IF ~Falsy(bound[1].name) THEN bound[1].name
       ELSE generateAgentName(offer.from)

\* part_005:238-269: the invoice is stored, the ACCEPT relayed and narrated, the INVOICE sent
invoiceAndNotify(H, accept, offer, ws, acceptorName, offerorName) ==
    LET made == createInvoice(H.activeInvoices, offer, accept.from)
        invoice == made.invoice
        H2 == [H EXCEPT !.activeInvoices = made.activeInvoices]
        H3 == broadcastToAgents(H2, accept, ws)
        spectatorMsg == ChatMsg(acceptorName \o " accepted offer " \o accept.id
                                \o " from " \o offerorName, "system")
        H4 == broadcast(H3, spectatorMsg, ws)
        invoiceMsg == InvoiceMsg(invoice.id, invoice.buyer, invoice.seller,
                                 invoice.price, invoice.skill, "system")
        H5 == sendToAddress(H4, invoice.buyer, invoiceMsg)
    IN sendToAddress(H5, invoice.seller, invoiceMsg)

\* generateAgentName(accept.from) throws on a missing from: the handler ends in
\* the catch of part_005:480
acceptNamingThrows(cs, accept, ws) ==
    LET i == ClientIdx(cs, ws) IN
    accept.from = UNDEF /\ (i = 0 \/ Falsy(cs[i].name))

handleAcceptSelfTrade(H, accept, ws) ==
    LET offer == IF Has(H.activeOffers, accept.id) THEN H.activeOffers[accept.id] ELSE NoOffer
    IN
    IF offer = NoOffer THEN H
    ELSE
      LET cs == bindAddress(H.clients, ws, accept.from)
          H1 == [H EXCEPT !.clients = cs]
      IN
      IF acceptNamingThrows(cs, accept, ws) THEN H1
      ELSE invoiceAndNotify(H1, accept, offer, ws, nameOrGenerated(cs, ws, accept.from),
                            offerorNameOf(cs, offer))

handleAccept(H, accept, ws) ==
    LET offer == IF Has(H.activeOffers, accept.id) THEN H.activeOffers[accept.id] ELSE NoOffer
    IN
    IF ~validateAccept(accept, offer) THEN H
    ELSE
      LET cs == bindAddress(H.clients, ws, accept.from)
          H1 == [H EXCEPT !.clients = cs]
      IN
      IF acceptNamingThrows(cs, accept, ws) THEN H1
      ELSE
        LET acceptorName == nameOrGenerated(cs, ws, accept.from)
            offerorName == offerorNameOf(cs, offer)
        IN
        IF accept.from = offer.from THEN H1
        ELSE invoiceAndNotify(H1, accept, offer, ws, acceptorName, offerorName)

\* part_005:281-289
bindPayer(cs, ws, from) ==
    LET i == ClientIdx(cs, ws) IN
    IF i # 0 /\ Falsy(cs[i].address)
    THEN [cs EXCEPT ![i].address = from,
                    ![i].name = IF Falsy(@) THEN generateAgentName(from) ELSE @]
    ELSE cs

transactionOfSwapped(pay, invoice) ==
    [id |-> pay.id, timestamp |-> now, from |-> invoice.seller, to |-> invoice.buyer,
     amount |-> invoice.price, txHash |-> pay.tx, status |-> "completed"]

\* the record built at part_005:303-311
transactionOf(pay, invoice) ==
    [id |-> pay.id, timestamp |-> now, from |-> invoice.buyer, to |-> invoice.seller,
     amount |-> invoice.price, txHash |-> pay.tx, status |-> "completed"]

recordTransactionTwice(log, transaction) == Append(Append(log, transaction), transaction)

\* transactions.push(transaction), part_005:312
recordTransaction(log, transaction) == Append(log, transaction)

handlePaymentUnnarrated(H, pay, ws) ==
    LET invoice == getInvoice(H.activeInvoices, pay.id) IN
    IF ~validatePayment(pay, invoice) THEN H
    ELSE
      LET cs == bindPayer(H.clients, ws, pay.from)
          H1 == [H EXCEPT !.clients = cs,
                          !.activeInvoices = completeInvoice(@, pay.id),
                          !.activeOffers = IF Has(@, pay.id) THEN MapDelete(@, pay.id) ELSE @,
                          !.transactions = recordTransaction(@, transactionOf(pay, invoice))]
      IN broadcastToAgents(H1, pay, ws)

\* a handlePayment that settles only for a connection bound to the payer
handlePaymentFromBound(H, pay, ws) ==
    LET invoice == getInvoice(H.activeInvoices, pay.id)
        i == ClientIdx(H.clients, ws)
    IN
    IF ~validatePayment(pay, invoice) THEN H
    ELSE IF i # 0 /\ ~Falsy(H.clients[i].address) /\ H.clients[i].address # pay.from THEN H
    ELSE
      LET cs == bindPayer(H.clients, ws, pay.from)
          payerName == nameOrGenerated(cs, ws, pay.from)
          H1 == [H EXCEPT !.clients = cs,
                          !.activeInvoices = completeInvoice(@, pay.id),
                          !.activeOffers = IF Has(@, pay.id) THEN MapDelete(@, pay.id) ELSE @,
                          !.transactions = recordTransaction(@, transactionOf(pay, invoice))]
          H2 == broadcastToAgents(H1, pay, ws)
          spectatorMsg == ChatMsg(payerName \o " completed payment for " \o pay.id
                                  \o " (tx: " \o pay.tx \o "...)", "system")
      IN broadcast(H2, spectatorMsg, ws)

handlePayment(H, pay, ws) ==
    LET invoice == getInvoice(H.activeInvoices, pay.id) IN
    IF ~validatePayment(pay, invoice) THEN H
    ELSE
      LET cs == bindPayer(H.clients, ws, pay.from)
          payerName == nameOrGenerated(cs, ws, pay.from)
          H1 == [H EXCEPT !.clients = cs,
                          !.activeInvoices = completeInvoice(@, pay.id),
                          !.activeOffers = IF Has(@, pay.id) THEN MapDelete(@, pay.id) ELSE @,
                          !.transactions = recordTransaction(@, transactionOf(pay, invoice))]
          H2 == broadcastToAgents(H1, pay, ws)
          spectatorMsg == ChatMsg(payerName \o " completed payment for " \o pay.id
                                  \o " (tx: " \o pay.tx \o "...)", "system")
      IN broadcast(H2, spectatorMsg, ws)

\* /I'm\s+([A-Za-z0-9]+)/i on the chat texts of the model: match[1], or UNDEF for null
introMatch(text) ==
    CASE text = "I'm Bob" -> "Bob"
      [] text = "Hi, I'm Eve" -> "Eve"
      [] OTHER -> UNDEF

\* text.match(/0x[a-fA-F0-9]{40}/g) on the chat texts of the model: the
\* addresses found, <<>> for null
addressesIn(text) ==
    IF text = "paid " \o HexAddress THEN <<HexAddress>> ELSE <<>>

\* modifiedText.replace(address, name) on the chat texts of the model
replaceFirst(text, address, name) ==
    IF text = "paid " \o address THEN "paid " \o name ELSE text

\* part_005:370-380: each address found is replaced by the name of the first
\* client that is bound to it and has a name
RECURSIVE replaceAddresses(_, _, _)
replaceAddresses(cs, text, addresses) ==
    IF addresses = <<>> THEN text
    ELSE LET named == SelectSeq(cs, LAMBDA c : c.address = Head(addresses)
                                              /\ ~Falsy(c.name))
             modifiedText == IF named = <<>> THEN text
                             ELSE replaceFirst(text, Head(addresses), named[1].name)
         IN replaceAddresses(cs, modifiedText, Tail(addresses))

\* part_005:337-354: the first client bound to chat.from gets a generated name if it has none
nameChatSender(cs, from) ==
    LET bound == {i \in 1..Len(cs) : cs[i].address = from} IN
    IF from = "system" \/ bound = {} THEN cs
    ELSE LET j == CHOOSE i \in bound : \A k \in bound : i <= k
         IN IF Falsy(cs[j].name) THEN [cs EXCEPT ![j].name = generateAgentName(from)] ELSE cs

\* generateAgentName(undefined) throws inside the loop of part_005:341-353
chatNamingThrows(cs, from) ==
    /\ from = UNDEF
    /\ \E i \in 1..Len(cs) :
          /\ cs[i].address = from
          /\ \A k \in 1..(i - 1) : cs[k].address # from
          /\ Falsy(cs[i].name)

handleChat(H, chat, ws) ==
    LET cs0 == IF chat.from # "system" THEN bindAddress(H.clients, ws, chat.from)
               ELSE H.clients
        H0 == [H EXCEPT !.clients = cs0]
    IN
    IF chatNamingThrows(cs0, chat.from) THEN H0
    ELSE
      LET H1 == [H0 EXCEPT !.clients = nameChatSender(cs0, chat.from)]
          \* with no address in the text the message is broadcast as it came
          broadcastMessage ==
              IF chat.from = "system" /\ chat.text # UNDEF /\ addressesIn(chat.text) # <<>>
              THEN [chat EXCEPT !.text = replaceAddresses(H1.clients, chat.text,
                                                          addressesIn(chat.text))]
              ELSE chat
      IN broadcast(H1, broadcastMessage, ws)

handleMessage(H, message, ws) ==
    CASE message.t = "OFFER" -> handleOffer(H, message, ws)
      [] message.t = "ACCEPT" -> handleAccept(H, message, ws)
      [] message.t = "PAY" -> handlePayment(H, message, ws)
      [] message.t = "CHAT" -> handleChat(H, message, ws)
      [] OTHER -> H

----------------------------------------------------------------------------
(* The connection's message handler, part_005:440-483 *)

\* data that JSON.parse rejects
NotJson == [raw |-> "not json"]

spectatorWarning == ChatMsg("As a spectator, you can only send chat messages.", "system")

\* part_005:461-477; the match on an undefined text throws after the address is stored
introduce(cs, i, message) ==
    LET cs1 == IF Falsy(cs[i].address) THEN [cs EXCEPT ![i].address = message.from] ELSE cs
        match == introMatch(message.text)
    IN IF message.text # UNDEF /\ match # UNDEF /\ Falsy(cs1[i].name)
       THEN [cs1 EXCEPT ![i].name = match]
       ELSE cs1

onMessageAnyRole(H, data, ws) ==
    IF data = NotJson THEN H
    ELSE
      LET message == data
          i == ClientIdx(H.clients, ws)
      IN
      IF message.t = "CHAT" /\ i # 0 /\ message.from # "system"
      THEN LET H1 == [H EXCEPT !.clients = introduce(@, i, message)]
           IN IF message.text = UNDEF THEN H1 ELSE handleMessage(H1, message, ws)
      ELSE handleMessage(H, message, ws)

onMessage(H, data, ws) ==
    IF data = NotJson THEN H
    ELSE
      LET message == data
          i == ClientIdx(H.clients, ws)
      IN
      IF i # 0 /\ H.clients[i].connectionType = "spectator" /\ message.t # "CHAT"
      THEN [H EXCEPT !.sent = @ \o Deliveries(<<H.clients[i]>>, spectatorWarning)]
      ELSE IF message.t = "CHAT" /\ i # 0 /\ message.from # "system"
      THEN LET H1 == [H EXCEPT !.clients = introduce(@, i, message)]
           IN IF message.text = UNDEF THEN H1 ELSE handleMessage(H1, message, ws)
      ELSE handleMessage(H, message, ws)

----------------------------------------------------------------------------
(* Inputs *)

\* Frames of the negotiation: an offer of A, a second offer of the same id by B
\* on other terms, an offer with price 0; accepts by the three addresses and
\* one without from; payments by the buyer, by another address and without tx.
OfferFrames ==
    { OfferMsg("o1", Num(1), "design", "A"),
      OfferMsg("o1", Num(2), "code", "B"),
      OfferMsg("o1", Num(0), "design", "A") }

AcceptFrames ==
    { AcceptMsg("o1", "A"), AcceptMsg("o1", "B"), AcceptMsg("o1", "C"),
      AcceptMsg("o1", UNDEF) }

PayFrames ==
    { PayMsg("o1", "r1", "A"), PayMsg("o1", "r1", "B"), PayMsg("o1", "", "A") }

\* Frames of the specification with every operation of the hub
OpsOfferFrames == { OfferMsg("o1", Num(1), "design", "A") }
OpsAcceptFrames == { AcceptMsg("o1", "B"), AcceptMsg("o1", UNDEF) }
OpsPayFrames == { PayMsg("o1", "r1", "A"), PayMsg("o1", "r1", "B") }
OpsChatFrames == { ChatMsg("hello", "A") }
OpsOtherFrames == { NotJson, [t |-> "PING"] }

\* Frames of the specification of the ledger with two offer ids: the offers of
\* A for o1 and o2, offers that lack a field or carry a price that is zero,
\* negative, missing or not a number, the accepts of B and the payment of A
LedgerOfferFrames ==
    { OfferMsg("o1", Num(1), "design", "A"),
      OfferMsg("o2", Num(1), "design", "A"),
      OfferMsg("o1", NotANumber, "design", "A"),
      OfferMsg("o1", Num(0), "design", "A"),
      OfferMsg("o1", Num(-1), "design", "A"),
      OfferMsg(UNDEF, Num(1), "design", "A"),
      OfferMsg("o1", Num(1), "", "A"),
      OfferMsg("o1", Num(1), "design", UNDEF) }
LedgerAcceptFrames == { AcceptMsg("o1", "B"), AcceptMsg("o2", "B") }
LedgerPayFrames == { PayMsg("o1", "r1", "A") }

\* Frames and name hints of the specification of the fanout: one negotiation,
\* an accept without from, a chat of B, a chat without text, a chat without
\* from and a chat whose from is the empty string
FanoutOfferFrames == { OfferMsg("o1", Num(1), "design", "A") }
FanoutAcceptFrames == { AcceptMsg("o1", "B"), AcceptMsg("o1", UNDEF) }
FanoutPayFrames == { PayMsg("o1", "r1", "A") }
FanoutChatFrames ==
    { ChatMsg("hello", "B"), ChatMsg(UNDEF, "B"), ChatMsg("hello", UNDEF),
      ChatMsg("hello", "") }
FanoutNames == { UNDEF, "Bob" }

\* Frames of the specification of the chats: a chat of a hexadecimal address,
\* chats that hold this address in their text, one of them with from 'system',
\* an introduction and a chat without text
ChatFrames ==
    { ChatMsg("hello", HexAddress),
      ChatMsg("paid " \o HexAddress, "system"),
      ChatMsg("paid " \o HexAddress, "B"),
      ChatMsg("I'm Bob", "B"),
      ChatMsg(UNDEF, "B") }

ConnectionTypes == {"agent", "spectator"}

----------------------------------------------------------------------------
(* State *)

\* no roster request is being served
NoRoster == [pending |-> FALSE, list |-> <<>>, balances |-> <<>>, next |-> 1]

\* baseAgent.ts:20-40: the agent as constructed, nothing in flight
NewAgent ==
    [connected |-> FALSE, pendingOffers |-> EmptyMap, acceptedOffers |-> EmptyMap,
     previousPartners |-> {}, inbox |-> <<>>, outbox |-> <<>>, paying |-> <<>>,
     offers |-> 0, payments |-> <<>>]

Init ==
    /\ clients = <<>>
    /\ activeOffers = EmptyMap
    /\ activeInvoices = EmptyMap
    /\ transactions = <<>>
    /\ now = 0
    /\ sent = <<>>
    /\ last = [op |-> "start"]
    /\ settledCount = 0
    /\ acceptedLive = {}
    /\ settledPay = EmptyMap
    /\ everExpired = {}
    /\ orphaned = EmptyMap
    /\ unacked = {}
    /\ roster = NoRoster
    /\ agent = NewAgent

Commit(H) ==
    /\ clients' = H.clients
    /\ activeOffers' = H.activeOffers
    /\ activeInvoices' = H.activeInvoices
    /\ transactions' = H.transactions
    /\ sent' = H.sent

Registered(ws) == ClientIdx(clients, ws) # 0
ClientOf(ws) == clients[ClientIdx(clients, ws)]

\* the frame gets past JSON.parse and the spectator check and is dispatched by kind
Dispatched(data, ws) ==
    /\ data # NotJson
    /\ ~(ClientOf(ws).connectionType = "spectator" /\ data.t # "CHAT")

\* An ACCEPT that handleAccept's validation lets through: the offer is stored
\* and the accept is not from the offer's own address.
AcceptValidated(data, ws) ==
    /\ Dispatched(data, ws)
    /\ data.t = "ACCEPT"
    /\ Has(activeOffers, data.id)
    /\ data.from # activeOffers[data.id].from

\* A PAY that settles: an invoice is stored for its id, it is from the buyer and
\* it carries a settlement reference.
PayValidated(data, ws) ==
    /\ Dispatched(data, ws)
    /\ data.t = "PAY"
    /\ Has(activeInvoices, data.id)
    /\ data.from = activeInvoices[data.id].buyer
    /\ ~Falsy(data.tx)

History(data, ws) ==
    /\ settledCount' = IF PayValidated(data, ws) THEN settledCount + 1 ELSE settledCount
    /\ acceptedLive' = IF AcceptValidated(data, ws) THEN acceptedLive \cup {data.id}
                       ELSE IF PayValidated(data, ws) THEN acceptedLive \ {data.id}
                       ELSE acceptedLive
    /\ settledPay' = IF PayValidated(data, ws) THEN MapSet(settledPay, data.id, data)
                     ELSE IF data # NotJson /\ data.t \in {"OFFER", "ACCEPT"}
                             /\ Has(settledPay, data.id)
                     THEN MapDelete(settledPay, data.id)
                     ELSE settledPay
    /\ orphaned' = IF PayValidated(data, ws)
                   THEN IF Has(orphaned, data.id)
                        THEN MapSet(orphaned, data.id, "settledLater")
                        ELSE orphaned
                   ELSE IF data # NotJson /\ data.t = "ACCEPT" /\ Has(orphaned, data.id)
                           /\ activeInvoices' # activeInvoices
                   THEN MapDelete(orphaned, data.id)
                   ELSE orphaned
    /\ UNCHANGED <<everExpired, unacked>>

\* ws.on('message')
Handle(ws, data) ==
    /\ Registered(ws)
    /\ ClientOf(ws).readyState = "OPEN"
    /\ Commit(onMessage(Hub, data, ws))
    /\ last' = [op |-> "message", ws |-> ws, msg |-> data]
    /\ History(data, ws)
    /\ UNCHANGED <<now, roster>>

\* ws.on('message') for a frame of a client that is not the modelled agent
Receive(ws, data) ==
    /\ Handle(ws, data)
    /\ UNCHANGED agent

RecvOffer(ws, m) ==
    /\ m.t = "OFFER"
    /\ Receive(ws, m)

RecvAccept(ws, m) ==
    /\ m.t = "ACCEPT"
    /\ Receive(ws, m)

\* the log is capped: no payment is settled once it holds MaxTx records
RecvPay(ws, m) ==
    /\ m.t = "PAY"
    /\ Registered(ws)
    /\ ~(PayValidated(m, ws) /\ Len(transactions) >= MaxTx)
    /\ Receive(ws, m)

RecvChat(ws, m) ==
    /\ m.t = "CHAT"
    /\ Receive(ws, m)

\* data that is no JSON, or a frame of a kind handleMessage does not know
RecvOther(ws, m) ==
    /\ IF m = NotJson THEN TRUE ELSE m.t \notin {"OFFER", "ACCEPT", "PAY", "CHAT"}
    /\ Receive(ws, m)

NoHistory ==
    UNCHANGED <<settledCount, acceptedLive, settledPay, everExpired, orphaned, unacked,
                roster, agent>>

\* history of a step that takes connections out of the table: the stored
\* invoices whose buyer was bound to one of them are orphaned
Removal ==
    /\ orphaned' =
          LET gone == {clients[i].address : i \in {k \in 1..Len(clients) :
                                            \A j \in 1..Len(clients') :
                                               clients'[j].ws # clients[k].ws}}
              hit == {id \in DOMAIN activeInvoices : activeInvoices[id].buyer \in gone}
          IN [id \in DOMAIN orphaned \cup hit |->
                IF id \in hit THEN "orphaned" ELSE orphaned[id]]
    /\ unacked' = IF last'.op = "heartbeat"
                  THEN {clients'[i].ws : i \in 1..Len(clients')}
                  ELSE unacked \cap {clients'[i].ws : i \in 1..Len(clients')}
    /\ UNCHANGED <<settledCount, acceptedLive, settledPay, everExpired, roster, agent>>

\* generateShortId() of the connection: six hex digits, here one per socket
shortId(ws) == CASE ws = 1 -> "c00001" [] ws = 2 -> "c00002" [] ws = 3 -> "c00003"
                 [] OTHER -> "c0000n"

welcome(ws, connectionType) ==
    IF connectionType = "spectator"
    THEN ChatMsg("Welcome to the Radius Negotiation Hub! You are connected as a spectator.",
                 "system")
    ELSE ChatMsg("Welcome to the Radius Negotiation Hub! You are agent " \o shortId(ws) \o ".",
                 "system")

\* part_005:427-435
newClient(ws, connectionType, providedName) ==
    [ws |-> ws, id |-> shortId(ws), isAlive |-> TRUE, address |-> UNDEF,
     name |-> providedName, connectionType |-> connectionType, readyState |-> "OPEN",
     sendThrows |-> FALSE]

\* wss.on('connection'), part_005:415-519
Connect(connectionType, providedName, max) ==
    /\ Len(clients) < max
    /\ LET ws == CHOOSE w \in 1..max :
                    /\ ~Registered(w)
                    /\ \A v \in 1..(w - 1) : Registered(v)
       IN /\ clients' = Append(clients, newClient(ws, connectionType, providedName))
          /\ sent' = <<[to |-> ws, msg |-> welcome(ws, connectionType)]>>
          /\ last' = [op |-> "connect", ws |-> ws]
    /\ UNCHANGED <<activeOffers, activeInvoices, transactions, now>>
    /\ NoHistory

\* ws.on('pong'), part_005:486-489
Pong(ws) ==
    /\ Registered(ws)
    /\ clients' = [clients EXCEPT ![ClientIdx(clients, ws)].isAlive = TRUE]
    /\ sent' = <<>>
    /\ last' = [op |-> "pong", ws |-> ws]
    /\ UNCHANGED <<activeOffers, activeInvoices, transactions, now>>
    /\ unacked' = unacked \ {ws}
    /\ UNCHANGED <<settledCount, acceptedLive, settledPay, everExpired, orphaned,
                   roster, agent>>

\* from now on ws.send throws on this socket
SendFailing(ws) ==
    /\ Registered(ws)
    /\ ~ClientOf(ws).sendThrows
    /\ clients' = [clients EXCEPT ![ClientIdx(clients, ws)].sendThrows = TRUE]
    /\ sent' = <<>>
    /\ last' = [op |-> "sendFailing", ws |-> ws]
    /\ UNCHANGED <<activeOffers, activeInvoices, transactions, now>>
    /\ NoHistory

\* the socket leaves readyState OPEN before its 'close' event is emitted
SocketClosing(ws) ==
    /\ Registered(ws)
    /\ ClientOf(ws).readyState = "OPEN"
    /\ clients' = [clients EXCEPT ![ClientIdx(clients, ws)].readyState = "CLOSING"]
    /\ sent' = <<>>
    /\ last' = [op |-> "closing", ws |-> ws]
    /\ UNCHANGED <<activeOffers, activeInvoices, transactions, now>>
    /\ NoHistory

CloseCancelsInvoices(ws) ==
    /\ Registered(ws)
    /\ clients' = ClientsDelete(clients, ws)
    /\ activeInvoices' = [id \in {x \in DOMAIN activeInvoices :
                                    activeInvoices[x].buyer # ClientOf(ws).address}
                            |-> activeInvoices[id]]
    /\ sent' = <<>>
    /\ last' = [op |-> "close", ws |-> ws]
    /\ UNCHANGED <<activeOffers, transactions, now>>
    /\ Removal

\* ws.on('close'), part_005:492-496
Close(ws) ==
    /\ Registered(ws)
    /\ clients' = ClientsDelete(clients, ws)
    /\ sent' = <<>>
    /\ last' = [op |-> "close", ws |-> ws]
    /\ UNCHANGED <<activeOffers, activeInvoices, transactions, now>>
    /\ Removal

\* ws.on('error'), part_005:499-503
Error(ws) ==
    /\ Registered(ws)
    /\ clients' = ClientsDelete(clients, ws)
    /\ sent' = <<>>
    /\ last' = [op |-> "error", ws |-> ws]
    /\ UNCHANGED <<activeOffers, activeInvoices, transactions, now>>
    /\ Removal

\* heartbeat() that probes the connections it keeps without clearing isAlive
heartbeatKeepsAlive(cs) ==
    SelectSeq(cs, LAMBDA c : c.isAlive)

\* the clients Map after heartbeat(), part_005:90-101
heartbeat(cs) ==
    LET alive == SelectSeq(cs, LAMBDA c : c.isAlive)
    IN [i \in 1..Len(alive) |-> [alive[i] EXCEPT !.isAlive = FALSE]]

Heartbeat ==
    /\ clients' = heartbeat(clients)
    /\ sent' = <<>>
    /\ last' = [op |-> "heartbeat",
                terminated |-> {clients[i].ws : i \in 1..Len(clients)}
                               \ {clients'[i].ws : i \in 1..Len(clients')},
                pinged |-> {clients'[i].ws : i \in 1..Len(clients')}]
    /\ UNCHANGED <<activeOffers, activeInvoices, transactions, now>>
    /\ Removal

\* the cleanup timer, part_005:107
Cleanup ==
    /\ activeInvoices' = cleanupExpiredInvoices(activeInvoices, now)
    /\ sent' = <<>>
    /\ last' = [op |-> "cleanup",
                deleted |-> DOMAIN activeInvoices \ DOMAIN activeInvoices',
                again |-> last.op = "cleanup",
                deletedBefore |-> IF last.op = "cleanup" THEN last.deleted ELSE {}]
    /\ acceptedLive' = acceptedLive \ (DOMAIN activeInvoices \ DOMAIN activeInvoices')
    /\ everExpired' = everExpired \cup (DOMAIN activeInvoices \ DOMAIN activeInvoices')
    /\ orphaned' = [id \in DOMAIN orphaned \ (DOMAIN activeInvoices \ DOMAIN activeInvoices')
                      |-> orphaned[id]]
    /\ UNCHANGED <<clients, activeOffers, transactions, now,
                   settledCount, settledPay, unacked, roster, agent>>

resetMsg ==
    ChatMsg("Negotiation state has been reset. All previous transactions and offers cleared.",
            "system")

\* part_005:637-642: the loop has no try/catch, so the first send that throws
\* ends it and the open connections after it get no notice
resetDeliveries(cs) ==
    LET open == SelectSeq(cs, LAMBDA c : c.readyState = "OPEN")
        firstThrow == IF \E k \in 1..Len(open) : open[k].sendThrows
                      THEN CHOOSE k \in 1..Len(open) :
                              /\ open[k].sendThrows
                              /\ \A j \in 1..(k - 1) : ~open[j].sendThrows
                      ELSE Len(open) + 1
    IN Deliveries(SubSeq(open, 1, firstThrow - 1), resetMsg)

\* a reset that also empties the invoice table
ResetClearsInvoices ==
    /\ transactions' = <<>>
    /\ activeOffers' = EmptyMap
    /\ activeInvoices' = EmptyMap
    /\ sent' = resetDeliveries(clients)
    /\ last' = [op |-> "reset"]
    /\ settledCount' = 0
    /\ UNCHANGED <<clients, now,
                   acceptedLive, settledPay, everExpired, orphaned, unacked,
                   roster, agent>>

\* /api/reset, part_005:620-653
Reset ==
    /\ transactions' = <<>>
    /\ activeOffers' = EmptyMap
    /\ sent' = resetDeliveries(clients)
    /\ last' = [op |-> "reset"]
    /\ settledCount' = 0
    /\ UNCHANGED <<clients, activeInvoices, now,
                   acceptedLive, settledPay, everExpired, orphaned, unacked,
                   roster, agent>>

\* Date.now() advances
Tick ==
    /\ now < MaxTicks * expiryTime
    /\ now' = now + expiryTime
    /\ sent' = <<>>
    /\ last' = [op |-> "tick"]
    /\ UNCHANGED <<clients, activeOffers, activeInvoices, transactions>>
    /\ NoHistory

\* GET /api/agents, part_005:540-558: the roster built from the clients Map
\* (the balances come from the ledger service and are left out)
agentsList(cs) ==
    LET listed == SelectSeq(cs, LAMBDA c : ~Falsy(c.address) /\ c.connectionType = "agent")
    IN [i \in 1..Len(listed) |->
          [id |-> listed[i].id,
           name |-> IF ~Falsy(listed[i].name) THEN listed[i].name
                    ELSE generateAgentName(listed[i].address),
           fullAddress |-> listed[i].address]]

\* the balances the ledger service answers with; a lookup that fails leaves 0
LedgerBalances == {0, 7}

\* GET /api/agents, part_005:540-563: the roster is built from the clients Map
\* and the asynchronous lookup starts; one request is served at a time
AgentsRequest ==
    /\ ~roster.pending
    /\ roster' = [pending |-> TRUE, list |-> agentsList(clients),
                  balances |-> [i \in 1..Len(agentsList(clients)) |-> 0], next |-> 1]
    /\ sent' = <<>>
    /\ last' = [op |-> "agents"]
    /\ UNCHANGED <<clients, activeOffers, activeInvoices, transactions, now, agent,
                   settledCount, acceptedLive, settledPay, everExpired, orphaned, unacked>>

\* a lookup continuation that writes the resolved name back into the clients Map
BalanceArrivesStoringName(b) ==
    /\ roster.pending
    /\ roster.next <= Len(roster.list)
    /\ roster' = [roster EXCEPT !.balances[roster.next] = b, !.next = @ + 1]
    /\ clients' = [i \in 1..Len(clients) |->
                     IF clients[i].id = roster.list[roster.next].id
                     THEN [clients[i] EXCEPT !.name = roster.list[roster.next].name]
                     ELSE clients[i]]
    /\ sent' = <<>>
    /\ last' = [op |-> "balance"]
    /\ UNCHANGED <<activeOffers, activeInvoices, transactions, now, agent,
                   settledCount, acceptedLive, settledPay, everExpired, orphaned, unacked>>

\* part_005:572-590: `await client.balanceAt(addressObj)` resumes for the next
\* agent of the roster and the balance is written into the roster copy
BalanceArrives(b) ==
    /\ roster.pending
    /\ roster.next <= Len(roster.list)
    /\ roster' = [roster EXCEPT !.balances[roster.next] = b, !.next = @ + 1]
    /\ sent' = <<>>
    /\ last' = [op |-> "balance"]
    /\ UNCHANGED <<clients, activeOffers, activeInvoices, transactions, now, agent,
                   settledCount, acceptedLive, settledPay, everExpired, orphaned, unacked>>

\* part_005:592-601: the response is written, after the last balance or at
\* once when the ledger client cannot be set up
AgentsRespond ==
    /\ roster.pending
    /\ roster.next = 1 \/ roster.next > Len(roster.list)
    /\ roster' = NoRoster
    /\ sent' = <<>>
    /\ last' = [op |-> "agentsDone", list |-> roster.list, balances |-> roster.balances]
    /\ UNCHANGED <<clients, activeOffers, activeInvoices, transactions, now, agent,
                   settledCount, acceptedLive, settledPay, everExpired, orphaned, unacked>>

----------------------------------------------------------------------------
(* The AI agent, src/unnamed/part_006:518-756 over src/src/agents/baseAgent.ts *)

\* the agent's address and name, and the socket of its connection: it is the
\* first to connect
AgentAddress == "A"
AgentName == "Bob"
AgentWs == 1

\* bounds of the agent: offers it makes, payments it starts, frames waiting
MaxOffers == 1
MaxPayments == 2
MaxInbox == 2
MaxAgentConns == 3

\* randomUUID() of the n-th offer, and the mock hash of the n-th payment
offerId(n) == IF n = 1 THEN "o1" ELSE "o9"
txHash(n) == IF n = 1 THEN "r1" ELSE "r2"

\* baseAgent.ts:183-189  sendMessage (the agent is connected)
sendMessage(a, message) == [a EXCEPT !.outbox = Append(@, message)]

\* baseAgent.ts:191-203  sendOffer
sendOffer(a, skill, price) ==
    LET id == offerId(a.offers + 1)
        offer == OfferMsg(id, price, skill, AgentAddress)
    IN sendMessage([a EXCEPT !.pendingOffers = MapSet(@, id, offer),
                             !.offers = @ + 1], offer)

\* baseAgent.ts:205-218  sendAccept
sendAccept(a, offerId_) ==
    LET a1 == sendMessage(a, AcceptMsg(offerId_, AgentAddress))
    IN IF Has(a1.pendingOffers, offerId_)
       THEN [a1 EXCEPT !.previousPartners = @ \cup {a1.pendingOffers[offerId_].from}]
       ELSE a1

\* baseAgent.ts:140-151  BaseAgent.handleOffer: a method without a return
\* value, so every path yields undefined
baseHandleOffer(a, offer) == UNDEF

\* part_006:645-670  AIAgent.handleOffer; `answer` is what callAI returns
aiHandleOffer(a, offer, answer) ==
    IF baseHandleOffer(a, offer) = UNDEF THEN a
    ELSE IF offer.from = AgentAddress THEN a
    ELSE IF answer = "yes"
    THEN [sendAccept(a, offer.id) EXCEPT !.acceptedOffers = MapSet(@, offer.id, offer)]
    ELSE a

\* baseAgent.ts:220-257 and part_006:690-701: the PAY frame of a payment is
\* sent with a fresh mock hash, the payment is logged with its recipient and
\* the offer leaves pendingOffers
sendPayment(a, p) ==
    LET tx == txHash(Len(a.payments) + 1)
        a1 == sendMessage(a, PayMsg(p.id, tx, AgentAddress))
    IN [a1 EXCEPT !.payments = Append(@, [tx |-> tx, id |-> p.id, to |-> p.to]),
                  !.pendingOffers = MapDelete(@, p.id)]

\* part_006:672-688  AIAgent.handleAccept with BaseAgent.handleAccept
\* (baseAgent.ts:153-167); with the ledger client set the PAY goes out in the
\* same turn, otherwise after `await this.initClient()`
aiHandleAccept(a, accept, clientSet) ==
    IF ~Has(a.pendingOffers, accept.id) THEN a
    ELSE IF accept.from = AgentAddress THEN a
    ELSE LET a1 == [a EXCEPT !.previousPartners = @ \cup {accept.from}]
             p == [id |-> accept.id, to |-> accept.from,
                   amount |-> a.pendingOffers[accept.id].price]
         IN IF clientSet THEN sendPayment(a1, p)
            ELSE [a1 EXCEPT !.paying = Append(@, p)]

\* part_006:703-715  AIAgent.handlePay
aiHandlePay(a, pay) ==
    IF ~Has(a.acceptedOffers, pay.id) THEN a
    ELSE sendMessage([a EXCEPT !.acceptedOffers = MapDelete(@, pay.id)],
                     ChatMsg("Thanks for the payment for "
                                \o a.acceptedOffers[pay.id].skill \o ".", AgentAddress))

\* baseAgent.ts:120-138  handleMessage
agentHandleMessage(a, message, answer, clientSet) ==
    CASE message.t = "OFFER" -> aiHandleOffer(a, message, answer)
      [] message.t = "ACCEPT" -> aiHandleAccept(a, message, clientSet)
      [] message.t = "PAY" -> aiHandlePay(a, message)
      [] OTHER -> a

\* the frames of the hub's last writes that reach the agent's socket and that
\* its handlers act on: CHAT frames of the hub and of agents that ask nothing
\* are passed over (part_006:717-724, 743-746), INVOICE frames are logged
agentFrames(frames) ==
    LET mine == SelectSeq(frames, LAMBDA f : f.to = AgentWs
                                            /\ f.msg.t \in {"OFFER", "ACCEPT", "PAY"})
    IN [i \in 1..Len(mine) |-> mine[i].msg]

AgentHistory ==
    UNCHANGED <<settledCount, acceptedLive, settledPay, everExpired, orphaned, unacked>>

AgentHubUnchanged ==
    UNCHANGED <<clients, activeOffers, activeInvoices, transactions, now, roster>>

\* baseAgent.ts:83-87 and part_006:593-599: the socket opens and the agent
\* announces itself
AgentOpens ==
    /\ Registered(AgentWs)
    /\ ~agent.connected
    /\ agent' = sendMessage([agent EXCEPT !.connected = TRUE],
                            ChatMsg(AgentName \o " ready.", AgentAddress))
    /\ sent' = <<>>
    /\ last' = [op |-> "agentOpens"]
    /\ AgentHubUnchanged
    /\ AgentHistory

\* part_006:611-643  considerMakingOffer when the model answers with a skill
\* of the agent and a price
AgentOffers ==
    /\ agent.connected
    /\ agent.offers < MaxOffers
    /\ agent' = sendOffer(agent, "design", Num(1))
    /\ sent' = <<>>
    /\ last' = [op |-> "agentOffers"]
    /\ AgentHubUnchanged
    /\ AgentHistory

\* baseAgent.ts:89-96: a frame of the hub arrives at the agent
AgentReceives(answer, clientSet) ==
    /\ agent.connected
    /\ agent.inbox # <<>>
    /\ Head(agent.inbox).t = "ACCEPT"
          => Len(agent.payments) + Len(agent.paying) < MaxPayments
    /\ agent' = agentHandleMessage([agent EXCEPT !.inbox = Tail(@)], Head(agent.inbox),
                                   answer, clientSet)
    /\ sent' = <<>>
    /\ last' = [op |-> "agentReceives", msg |-> Head(agent.inbox), answer |-> answer,
                clientSet |-> clientSet]
    /\ AgentHubUnchanged
    /\ AgentHistory

\* baseAgent.ts:222-224: `await this.initClient()` of a payment resumes
AgentPays ==
    /\ agent.paying # <<>>
    /\ agent' = sendPayment([agent EXCEPT !.paying = Tail(@)], Head(agent.paying))
    /\ sent' = <<>>
    /\ last' = [op |-> "agentPays"]
    /\ AgentHubUnchanged
    /\ AgentHistory

\* ws.on('message') of the hub for the next frame of the agent
HubReceivesAgent ==
    /\ agent.outbox # <<>>
    /\ Handle(AgentWs, Head(agent.outbox))
    /\ agent' = [agent EXCEPT !.outbox = Tail(@), !.inbox = @ \o agentFrames(sent')]

\* ws.on('message') of the hub for a frame of another agent
HubReceivesOther(ws, m) ==
    /\ ws # AgentWs
    /\ Len(agent.inbox) < MaxInbox
    /\ Handle(ws, m)
    /\ agent' = [agent EXCEPT !.inbox = @ \o agentFrames(sent')]

\* the frames of the agents B and C: an offer of B, and accepts of both for
\* the agent's offer
OtherFrames(ws) ==
    IF ws = 2 THEN { OfferMsg("o2", Num(1), "code", "B"), AcceptMsg(offerId(1), "B") }
    ELSE { AcceptMsg(offerId(1), "C") }

\* The hub with the AI agent A and the agents B and C
NextAgents ==
    \/ (clients = <<>> /\ Connect("agent", AgentName, MaxAgentConns))
    \/ (clients # <<>> /\ Connect("agent", UNDEF, MaxAgentConns))
    \/ AgentOpens
    \/ AgentOffers
    \/ \E answer \in {"yes", "no"}, clientSet \in BOOLEAN : AgentReceives(answer, clientSet)
    \/ AgentPays
    \/ HubReceivesAgent
    \/ \E ws \in 2..MaxAgentConns : \E m \in OtherFrames(ws) : HubReceivesOther(ws, m)

SpecAgents == Init /\ [][NextAgents]_vars

\* The negotiation frames on up to MaxConns connections
Next ==
    \/ \E ct \in ConnectionTypes : Connect(ct, UNDEF, MaxConns)
    \/ \E ws \in 1..MaxConns, m \in OfferFrames : RecvOffer(ws, m)
    \/ \E ws \in 1..MaxConns, m \in AcceptFrames : RecvAccept(ws, m)
    \/ \E ws \in 1..MaxConns, m \in PayFrames : RecvPay(ws, m)

Spec == Init /\ [][Next]_vars

\* Every operation of the hub, on fewer frames
NextOps ==
    \/ \E ct \in ConnectionTypes : Connect(ct, UNDEF, MaxOpsConns)
    \/ \E ws \in 1..MaxOpsConns, m \in OpsOfferFrames : RecvOffer(ws, m)
    \/ \E ws \in 1..MaxOpsConns, m \in OpsAcceptFrames : RecvAccept(ws, m)
    \/ \E ws \in 1..MaxOpsConns, m \in OpsPayFrames : RecvPay(ws, m)
    \/ \E ws \in 1..MaxOpsConns, m \in OpsChatFrames : RecvChat(ws, m)
    \/ \E ws \in 1..MaxOpsConns, m \in OpsOtherFrames : RecvOther(ws, m)
    \/ \E ws \in 1..MaxOpsConns : Pong(ws)
    \/ \E ws \in 1..MaxOpsConns : Close(ws)
    \/ \E ws \in 1..MaxOpsConns : Error(ws)
    \/ Heartbeat
    \/ Cleanup
    \/ Reset
    \/ Tick

SpecOps == Init /\ [][NextOps]_vars

\* The ledger with two offer ids, the clock and the expiry sweep, on one
\* participant connection
NextLedger ==
    \/ Connect("agent", UNDEF, MaxOpsConns)
    \/ \E m \in LedgerOfferFrames : RecvOffer(1, m)
    \/ \E m \in LedgerAcceptFrames : RecvAccept(1, m)
    \/ \E m \in LedgerPayFrames : RecvPay(1, m)
    \/ Cleanup
    \/ Tick

SpecLedger == Init /\ [][NextLedger]_vars

\* The fanout: participants and observers, with and without a name hint, and
\* their frames, chats included
NextFanout ==
    \/ \E ct \in ConnectionTypes, n \in FanoutNames : Connect(ct, n, MaxConns)
    \/ \E ws \in 1..MaxConns, m \in FanoutOfferFrames : RecvOffer(ws, m)
    \/ \E ws \in 1..MaxConns, m \in FanoutAcceptFrames : RecvAccept(ws, m)
    \/ \E ws \in 1..MaxConns, m \in FanoutPayFrames : RecvPay(ws, m)
    \/ \E ws \in 1..MaxConns, m \in FanoutChatFrames : RecvChat(ws, m)
    \/ \E ws \in 1..MaxConns : SocketClosing(ws)

SpecFanout == Init /\ [][NextFanout]_vars

\* The chats: participants and observers, with and without a name hint
NextChat ==
    \/ \E ct \in ConnectionTypes, n \in FanoutNames : Connect(ct, n, MaxConns)
    \/ \E ws \in 1..MaxConns, m \in ChatFrames : RecvChat(ws, m)
    \/ \E ws \in 1..MaxConns : Close(ws)

SpecChat == Init /\ [][NextChat]_vars

\* Frames of the specification with resets: one offer, its accept, its payment
ResetOfferFrames == { OfferMsg("o1", Num(1), "design", "A") }
ResetAcceptFrames == { AcceptMsg("o1", "B") }
ResetPayFrames == { PayMsg("o1", "r1", "A") }

\* Resets among negotiations, on connections of both roles whose sockets may
\* be closing or throw on send
NextReset ==
    \/ \E ct \in ConnectionTypes : Connect(ct, UNDEF, MaxConns)
    \/ \E ws \in 1..MaxConns, m \in ResetOfferFrames : RecvOffer(ws, m)
    \/ \E ws \in 1..MaxConns, m \in ResetAcceptFrames : RecvAccept(ws, m)
    \/ \E ws \in 1..MaxConns, m \in ResetPayFrames : RecvPay(ws, m)
    \/ \E ws \in 1..MaxConns : SocketClosing(ws)
    \/ \E ws \in 1..MaxConns : SendFailing(ws)
    \/ Reset

SpecReset == Init /\ [][NextReset]_vars

\* Roster requests whose balance lookups complete among frames and sweeps
NextRoster ==
    \/ Connect("agent", UNDEF, MaxConns)
    \/ \E ws \in 1..MaxConns, m \in ResetOfferFrames : RecvOffer(ws, m)
    \/ \E ws \in 1..MaxConns, m \in ResetAcceptFrames : RecvAccept(ws, m)
    \/ Heartbeat
    \/ Cleanup
    \/ AgentsRequest
    \/ \E b \in LedgerBalances : BalanceArrives(b)
    \/ AgentsRespond

SpecRoster == Init /\ [][NextRoster]_vars

\* The liveness sweep: connections of both roles that answer probes, or do not
NextLiveness ==
    \/ \E ct \in ConnectionTypes : Connect(ct, UNDEF, MaxConns)
    \/ \E ws \in 1..MaxConns : RecvChat(ws, ChatMsg("hello", "B"))
    \/ \E ws \in 1..MaxConns : Pong(ws)
    \/ \E ws \in 1..MaxConns : Close(ws)
    \/ Heartbeat

SpecLiveness == Init /\ [][NextLiveness]_vars

----------------------------------------------------------------------------
(* Properties of the negotiation ledger *)

\* the step just taken handled frame kind `t` on a participant connection
Handled(l, t) ==
    /\ l.op = "message"
    /\ l.msg # NotJson
    /\ l.msg.t = t
    /\ Registered(l.ws)
    /\ ClientOf(l.ws).connectionType = "agent"

OthersOpen(ws) ==
    \E i \in 1..Len(clients) :
        /\ clients[i].ws # ws
        /\ clients[i].readyState = "OPEN"
        /\ clients[i].connectionType = "agent"

\* C1: after an ACCEPT for X from an address B, handled while a (valid) offer X
\* of another address A is stored, the ledger holds an invoice for X with
\* buyer = A, seller = B and the price and skill of the stored offer.
C1_AcceptCreatesInvoice ==
    (/\ Handled(last, "ACCEPT")
     /\ last.msg.from # UNDEF
     /\ Has(activeOffers, last.msg.id)
     /\ last.msg.from # activeOffers[last.msg.id].from)
    => /\ Has(activeInvoices, last.msg.id)
       /\ activeInvoices[last.msg.id].buyer = activeOffers[last.msg.id].from
       /\ activeInvoices[last.msg.id].seller = last.msg.from
       /\ activeInvoices[last.msg.id].price = activeOffers[last.msg.id].price
       /\ activeInvoices[last.msg.id].skill = activeOffers[last.msg.id].skill

C1_Witness ==
    /\ Handled(last, "ACCEPT")
    /\ last.msg = AcceptMsg("o1", "A")
    /\ Has(activeOffers, "o1")
    /\ activeOffers["o1"] = OfferMsg("o1", Num(2), "code", "B")
    /\ Has(activeInvoices, "o1")
    /\ activeInvoices["o1"].buyer = "B"
    /\ activeInvoices["o1"].seller = "A"
    /\ activeInvoices["o1"].price = Num(2)
    /\ activeInvoices["o1"].skill = "code"

\* C2: an ACCEPT for X whose from equals the from of the stored offer X creates
\* no invoice, sends no frame to any connection and leaves the stored offers
\* unchanged.
C2_SelfAcceptRejected ==
    [][(/\ Handled(last', "ACCEPT")
        /\ Has(activeOffers, last'.msg.id)
        /\ last'.msg.from = activeOffers[last'.msg.id].from)
       => /\ activeInvoices' = activeInvoices
          /\ sent' = <<>>
          /\ activeOffers' = activeOffers]_vars

C2_Witness ==
    /\ Handled(last, "ACCEPT")
    /\ last.msg = AcceptMsg("o1", "A")
    /\ Has(activeOffers, "o1")
    /\ activeOffers["o1"].from = "A"
    /\ OthersOpen(last.ws)
    /\ sent = <<>>
    /\ ~Has(activeInvoices, "o1")

\* C3: a PAY for X from the invoice's buyer with a non-empty tx, handled while
\* an invoice for X is stored, appends one TransactionRecord with from = buyer,
\* to = seller, amount = price, settlement reference = pay.tx and status
\* 'completed'; afterwards neither an invoice nor an open offer exists for X.
C3_PaySettles ==
    [][(/\ Handled(last', "PAY")
        /\ Has(activeInvoices, last'.msg.id)
        /\ last'.msg.from = activeInvoices[last'.msg.id].buyer
        /\ ~Falsy(last'.msg.tx))
       => /\ Len(transactions') = Len(transactions) + 1
          /\ SubSeq(transactions', 1, Len(transactions)) = transactions
          /\ LET r == transactions'[Len(transactions')]
                 invoice == activeInvoices[last'.msg.id]
             IN /\ r.id = last'.msg.id
                /\ r.from = invoice.buyer
                /\ r.to = invoice.seller
                /\ r.amount = invoice.price
                /\ r.txHash = last'.msg.tx
                /\ r.status = "completed"
          /\ ~Has(activeInvoices', last'.msg.id)
          /\ ~Has(activeOffers', last'.msg.id)]_vars

C3_Witness ==
    /\ Handled(last, "PAY")
    /\ last.msg = PayMsg("o1", "r1", "A")
    /\ Len(transactions) = 1
    /\ transactions[1].from = "A"
    /\ transactions[1].to = "B"
    /\ transactions[1].amount = Num(1)
    /\ transactions[1].txHash = "r1"
    /\ OthersOpen(last.ws)
    /\ sent # <<>>
    /\ ~Has(activeInvoices, "o1")
    /\ ~Has(activeOffers, "o1")

\* C4: a PAY identical to the one that settled invoice X, handled again with no
\* OFFER or ACCEPT for X in between, is rejected: the transaction log gains no
\* record and no frame is sent to any connection.
C4_RepeatedPayRejected ==
    [][(/\ Handled(last', "PAY")
        /\ Has(settledPay, last'.msg.id)
        /\ settledPay[last'.msg.id] = last'.msg)
       => /\ transactions' = transactions
          /\ sent' = <<>>]_vars

C4_Witness ==
    /\ Handled(last, "PAY")
    /\ Has(settledPay, "o1")
    /\ settledPay["o1"] = last.msg
    /\ Len(transactions) = 1
    /\ transactions[1].txHash = last.msg.tx
    /\ OthersOpen(last.ws)
    /\ sent = <<>>

\* C5: a PAY for X whose from differs from the buyer of the stored invoice for
\* X is rejected: no TransactionRecord is appended and the invoices and the
\* offers stay as they were.
C5_WrongPayerRejected ==
    [][(/\ Handled(last', "PAY")
        /\ Has(activeInvoices, last'.msg.id)
        /\ last'.msg.from # activeInvoices[last'.msg.id].buyer)
       => /\ transactions' = transactions
          /\ activeInvoices' = activeInvoices
          /\ activeOffers' = activeOffers]_vars

C5_Witness ==
    /\ Handled(last, "PAY")
    /\ last.msg = PayMsg("o1", "r1", "B")
    /\ Has(activeInvoices, "o1")
    /\ activeInvoices["o1"].buyer = "A"
    /\ activeInvoices["o1"].seller = "B"
    /\ Has(activeOffers, "o1")
    /\ transactions = <<>>

\* C6: once an invoice for X exists, a further ACCEPT for X from any address is
\* rejected and the invoice keeps its buyer, seller, price and skill.
C6_NoAcceptWhileInvoiced ==
    [][(/\ Handled(last', "ACCEPT")
        /\ Has(activeInvoices, last'.msg.id))
       => /\ Has(activeInvoices', last'.msg.id)
          /\ activeInvoices'[last'.msg.id].buyer = activeInvoices[last'.msg.id].buyer
          /\ activeInvoices'[last'.msg.id].seller = activeInvoices[last'.msg.id].seller
          /\ activeInvoices'[last'.msg.id].price = activeInvoices[last'.msg.id].price
          /\ activeInvoices'[last'.msg.id].skill = activeInvoices[last'.msg.id].skill
          /\ sent' = <<>>]_vars

\* C7: once a PAY has settled X (the log holds a record with id X), no invoice
\* for X exists again and the log never holds two records with the same id.
C7_SettledTerminal ==
    \A i \in 1..Len(transactions) :
        /\ ~Has(activeInvoices, transactions[i].id)
        /\ \A j \in 1..Len(transactions) :
              transactions[i].id = transactions[j].id => i = j

\* C8: once the expiry sweep has deleted the invoice for X, no ACCEPT creates
\* an invoice for X again (and so no PAY for X appends a record).
C8_ExpiredTerminal ==
    \A id \in everExpired : ~Has(activeInvoices, id)

\* C9: a PAY that settles appends exactly one TransactionRecord, the reset
\* empties the log and no other operation changes it, so the records in the
\* log are as many as the invoices settled since start or the last reset.
C9_OneRecordPerSettlement ==
    [][/\ IF last'.op = "message" /\ PayValidated(last'.msg, last'.ws)
          THEN /\ Len(transactions') = Len(transactions) + 1
               /\ SubSeq(transactions', 1, Len(transactions)) = transactions
          ELSE IF last'.op = "reset" THEN transactions' = <<>>
          ELSE transactions' = transactions
       /\ Len(transactions') = settledCount']_vars

C9_Witness ==
    /\ last.op \in {"cleanup", "heartbeat", "close"}
    /\ Len(transactions) = 1
    /\ settledCount = 1
    /\ transactions[1].id = "o1"

\* C10: an invoice for X exists if and only if some ACCEPT for X has passed
\* validation and, since the latest such ACCEPT, the invoice has been neither
\* settled by a PAY nor removed by the expiry sweep.
C10_InvoiceIffAcceptedLive ==
    \A id \in DOMAIN activeInvoices \cup acceptedLive :
        Has(activeInvoices, id) <=> id \in acceptedLive

\* C11: in every reachable state every stored invoice has a buyer different
\* from its seller, also after the offer id was offered again by another
\* address or accepted more than once.
C11_BuyerNotSeller ==
    \A id \in DOMAIN activeInvoices :
        activeInvoices[id].buyer # activeInvoices[id].seller

\* o1 was settled with buyer A, then offered again by B and accepted by A
C11_Witness ==
    /\ Handled(last, "ACCEPT")
    /\ Len(transactions) = 1
    /\ transactions[1].id = "o1"
    /\ transactions[1].from = "A"
    /\ Has(activeInvoices, "o1")
    /\ activeInvoices["o1"].buyer = "B"
    /\ activeInvoices["o1"].seller = "A"

\* C12: an OFFER is stored as an open offer only if its price is a number
\* greater than 0 and its id, skill and from are present and non-empty; an
\* OFFER failing any of these (a missing or non-numeric price included)
\* creates no offer entry, binds no address and is not broadcast.
C12_InvalidOfferDropped ==
    [][(/\ Handled(last', "OFFER")
        /\ ~(/\ last'.msg.price.isNumber
             /\ last'.msg.price.value > 0
             /\ ~Falsy(last'.msg.id)
             /\ ~Falsy(last'.msg.skill)
             /\ ~Falsy(last'.msg.from)))
       => /\ activeOffers' = activeOffers
          /\ clients' = clients
          /\ sent' = <<>>]_vars

----------------------------------------------------------------------------
(* Properties of the fanout *)

\* C13: an INVOICE frame for an invoice with buyer A and seller B is sent only
\* to connections whose bound address is A or B when the ACCEPT is handled; a
\* connection bound to another address, or with no bound address, never
\* receives it.
C13_InvoiceOnlyToParties ==
    \A i \in 1..Len(sent) :
        sent[i].msg.t = "INVOICE"
        => /\ Registered(sent[i].to)
           /\ ClientOf(sent[i].to).address # UNDEF
           /\ ClientOf(sent[i].to).address \in {sent[i].msg.buyer, sent[i].msg.seller}

\* C14: every frame delivered to an observer connection has kind CHAT, OFFER,
\* ACCEPT or PAY; an observer never receives an INVOICE frame, also when the
\* address bound to it by its own CHAT is the invoice's buyer or seller.
C14_ObserverFeed ==
    \A i \in 1..Len(sent) :
        (/\ Registered(sent[i].to)
         /\ ClientOf(sent[i].to).connectionType = "spectator")
        => sent[i].msg.t \in {"CHAT", "OFFER", "ACCEPT", "PAY"}

\* an ACCEPT of B is handled while an observer is bound to B: the observer
\* gets the narration, the INVOICE goes to the buyer's connection only
C14_Witness ==
    /\ Handled(last, "ACCEPT")
    /\ Has(activeInvoices, "o1")
    /\ activeInvoices["o1"].seller = "B"
    /\ \E i \in 1..Len(clients) :
          /\ clients[i].connectionType = "spectator"
          /\ clients[i].address = "B"
          /\ clients[i].readyState = "OPEN"
          /\ \E k \in 1..Len(sent) : sent[k].to = clients[i].ws /\ sent[k].msg.t = "CHAT"
    /\ \E k \in 1..Len(sent) : sent[k].msg.t = "INVOICE"

\* C26: after a valid ACCEPT every open participant connection whose bound
\* address is the invoice's buyer or seller receives the INVOICE frame, also
\* when several connections are bound to the same address.
C26_InvoiceToEveryParty ==
    (/\ Handled(last, "ACCEPT")
     /\ last.msg.from # UNDEF
     /\ Has(activeOffers, last.msg.id)
     /\ last.msg.from # activeOffers[last.msg.id].from)
    => \A i \in 1..Len(clients) :
          (/\ clients[i].connectionType = "agent"
           /\ clients[i].readyState = "OPEN"
           /\ clients[i].address \in {activeOffers[last.msg.id].from, last.msg.from})
          => \E k \in 1..Len(sent) :
                /\ sent[k].to = clients[i].ws
                /\ sent[k].msg.t = "INVOICE"
                /\ sent[k].msg.id = last.msg.id

\* C15: a frame of any kind other than CHAT sent by an observer connection
\* leaves the connection table (the observer's bound address and name
\* included), the open offers, the invoices and the transaction log unchanged
\* and produces exactly one frame: a CHAT of the system telling the observer
\* that it may only chat, sent to that observer only.
C15_ObserverDenied ==
    [][(/\ last'.op = "message"
        /\ last'.msg # NotJson
        /\ last'.msg.t # "CHAT"
        /\ Registered(last'.ws)
        /\ ClientOf(last'.ws).connectionType = "spectator")
       => /\ clients' = clients
          /\ activeOffers' = activeOffers
          /\ activeInvoices' = activeInvoices
          /\ transactions' = transactions
          /\ Len(sent') = 1
          /\ sent'[1].to = last'.ws
          /\ sent'[1].msg.t = "CHAT"
          /\ sent'[1].msg.from = "system"
          /\ sent'[1].msg.text = "As a spectator, you can only send chat messages."]_vars

\* an observer bound to B and named Bob has sent an ACCEPT that a participant
\* could have sent, while a participant is connected
C15_Witness ==
    /\ last.op = "message"
    /\ last.msg = AcceptMsg("o1", "B")
    /\ Registered(last.ws)
    /\ ClientOf(last.ws).connectionType = "spectator"
    /\ ClientOf(last.ws).address = "B"
    /\ ClientOf(last.ws).name = "Bob"
    /\ OthersOpen(last.ws)
    /\ Has(activeOffers, "o1")
    /\ ~Has(activeInvoices, "o1")
    /\ Len(sent) = 1
    /\ sent[1].to = last.ws

\* C16: a CHAT (with its text and its from) sent by an observer connection is
\* delivered, once and as it came, to every other open connection, to
\* participants and observers alike.
C16_ObserverChatRelayed ==
    (/\ last.op = "message"
     /\ last.msg # NotJson
     /\ last.msg.t = "CHAT"
     /\ last.msg.text # UNDEF
     /\ last.msg.from # UNDEF
     /\ Registered(last.ws)
     /\ ClientOf(last.ws).connectionType = "spectator")
    => \A i \in 1..Len(clients) :
          (clients[i].ws # last.ws /\ clients[i].readyState = "OPEN")
          => Cardinality({k \in 1..Len(sent) :
                            sent[k].to = clients[i].ws /\ sent[k].msg = last.msg}) = 1

\* the chat of an observer has reached another observer
C16_Witness ==
    /\ last.op = "message"
    /\ last.msg = ChatMsg("hello", "B")
    /\ Registered(last.ws)
    /\ ClientOf(last.ws).connectionType = "spectator"
    /\ \E i \in 1..Len(clients) :
          /\ clients[i].ws # last.ws
          /\ clients[i].connectionType = "spectator"
          /\ clients[i].readyState = "OPEN"
          /\ sent = <<[to |-> clients[i].ws, msg |-> last.msg]>>

\* C17: for every inbound OFFER, ACCEPT, PAY or CHAT that is dispatched,
\* neither the relayed frame nor the system narration made for it is delivered
\* to the connection that sent the inbound frame: the only frame that the
\* handler may send to the sender is an INVOICE addressed to it.
C17_NoEchoToSender ==
    (/\ last.op = "message"
     /\ Registered(last.ws)
     /\ Dispatched(last.msg, last.ws)
     /\ last.msg.t \in {"OFFER", "ACCEPT", "PAY", "CHAT"})
    => \A k \in 1..Len(sent) :
          sent[k].to = last.ws
          => /\ sent[k].msg # last.msg
             /\ sent[k].msg.t # "CHAT"
             /\ sent[k].msg.t = "INVOICE"

\* the ACCEPT of B came on the connection bound to B: the other connection
\* got the ACCEPT and its narration, the sender only its INVOICE
C17_Witness ==
    /\ Handled(last, "ACCEPT")
    /\ last.msg = AcceptMsg("o1", "B")
    /\ ClientOf(last.ws).address = "B"
    /\ \E k \in 1..Len(sent) : sent[k].to = last.ws /\ sent[k].msg.t = "INVOICE"
    /\ \E k \in 1..Len(sent) : sent[k].to # last.ws /\ sent[k].msg = last.msg
    /\ \E k \in 1..Len(sent) :
          /\ sent[k].to # last.ws
          /\ sent[k].msg.t = "CHAT"
          /\ sent[k].msg.from = "system"

----------------------------------------------------------------------------
(* Properties of the expiry sweep *)

\* C18: the expiry sweep deletes exactly the invoices whose age exceeds the
\* TTL of ten minutes, keeps every younger invoice, appends no
\* TransactionRecord, changes no open offer and sends no frame.
C18_SweepExact ==
    [][last'.op = "cleanup"
       => /\ DOMAIN activeInvoices' =
                {id \in DOMAIN activeInvoices :
                    now - activeInvoices[id].timestamp <= 10 * 60 * 1000}
          /\ \A id \in DOMAIN activeInvoices' : activeInvoices'[id] = activeInvoices[id]
          /\ transactions' = transactions
          /\ activeOffers' = activeOffers
          /\ clients' = clients
          /\ sent' = <<>>]_vars

\* the sweep has deleted the invoice of o1, twenty minutes old, and kept the
\* invoice of o2, exactly ten minutes old; both offers are still open
C18_Witness ==
    /\ last.op = "cleanup"
    /\ last.deleted = {"o1"}
    /\ Has(activeInvoices, "o2")
    /\ now - activeInvoices["o2"].timestamp = 10 * 60 * 1000
    /\ Has(activeOffers, "o1")
    /\ Has(activeOffers, "o2")
    /\ sent = <<>>

\* C19: the expiry sweep is idempotent: a second run at the same clock value
\* leaves the invoices, the offers and the transaction log as the first run
\* left them.
C19_SweepIdempotent ==
    [][(last.op = "cleanup" /\ last'.op = "cleanup" /\ now' = now)
       => /\ activeInvoices' = activeInvoices
          /\ activeOffers' = activeOffers
          /\ transactions' = transactions]_vars

\* the first run deleted both invoices, the second run nothing
C19_Witness ==
    /\ last.op = "cleanup"
    /\ last.again
    /\ last.deletedBefore = {"o1", "o2"}
    /\ last.deleted = {}
    /\ activeInvoices = EmptyMap

----------------------------------------------------------------------------
(* Properties of the connection registry *)

\* C20: the address bound to a connection is set by the first processed frame
\* that carries a from value, to that value, and never changes afterwards,
\* whatever from values later OFFER, ACCEPT, PAY or CHAT frames on that
\* connection carry.
C20_AddressBoundOnce ==
    [][\A i \in 1..Len(clients), j \in 1..Len(clients') :
          clients[i].ws = clients'[j].ws
          => IF clients[i].address # UNDEF
             THEN clients'[j].address = clients[i].address
             ELSE clients'[j].address # UNDEF
                  => /\ last'.op = "message"
                     /\ last'.ws = clients[i].ws
                     /\ last'.msg # NotJson
                     /\ clients'[j].address = last'.msg.from]_vars

----------------------------------------------------------------------------
(* Properties of the open offers *)

\* C21: after a valid OFFER with id X is processed, the one open-offer entry
\* for X stays present with the same skill, price and from until it is
\* consumed (by a valid ACCEPT, and removed on settlement; the reset of the
\* side channel also clears it).
C21_OfferKeptUntilConsumed ==
    [][\A id \in DOMAIN activeOffers :
          (/\ ~Has(activeInvoices, id)
           /\ last'.op # "reset"
           /\ ~(/\ last'.op = "message"
                /\ AcceptValidated(last'.msg, last'.ws)
                /\ last'.msg.id = id))
          => /\ Has(activeOffers', id)
             /\ activeOffers'[id] = activeOffers[id]]_vars

\* C25: offer ids are single-use while in use: a valid OFFER whose id is that
\* of an offer that is open or invoiced does not replace the stored offer,
\* whose from, skill and price stay those of the first OFFER with that id.
C25_OfferIdSingleUse ==
    [][(/\ Handled(last', "OFFER")
        /\ last'.msg.price.isNumber
        /\ last'.msg.price.value > 0
        /\ ~Falsy(last'.msg.id)
        /\ ~Falsy(last'.msg.skill)
        /\ ~Falsy(last'.msg.from)
        /\ (Has(activeOffers, last'.msg.id) \/ Has(activeInvoices, last'.msg.id)))
       => activeOffers' = activeOffers]_vars

----------------------------------------------------------------------------
(* Properties of the names *)

\* C22: two connections that declare the same address resolve to the same
\* friendly name in the hub's outputs that name them: here the roster, where
\* two entries with the same address carry the same name.
C22_SameAddressSameName ==
    \A i, j \in 1..Len(agentsList(clients)) :
        agentsList(clients)[i].fullAddress = agentsList(clients)[j].fullAddress
        => agentsList(clients)[i].name = agentsList(clients)[j].name

----------------------------------------------------------------------------
(* Properties of the frames that are refused *)

\* the frame fails the validation of its kind: an OFFER without a price
\* greater than 0 or without id, skill or from; an ACCEPT for no stored offer
\* or from the offer's own address; a PAY for no stored invoice, not from the
\* buyer or without a settlement reference
FailsValidation(m) ==
    CASE m.t = "OFFER" ->
            ~(/\ m.price.isNumber
              /\ m.price.value > 0
              /\ ~Falsy(m.id)
              /\ ~Falsy(m.skill)
              /\ ~Falsy(m.from))
      [] m.t = "ACCEPT" ->
            \/ ~Has(activeOffers, m.id)
            \/ m.from = activeOffers[m.id].from
      [] m.t = "PAY" ->
            \/ ~Has(activeInvoices, m.id)
            \/ m.from # activeInvoices[m.id].buyer
            \/ Falsy(m.tx)
      [] OTHER -> FALSE

\* C23: every OFFER, ACCEPT or PAY that fails validation is dropped silently:
\* no frame is sent to the sender or to any other connection, and the
\* connection table, the open offers, the invoices and the transaction log
\* are unchanged.
C23_InvalidDroppedSilently ==
    [][(/\ last'.op = "message"
        /\ Dispatched(last'.msg, last'.ws)
        /\ FailsValidation(last'.msg))
       => /\ sent' = <<>>
          /\ clients' = clients
          /\ activeOffers' = activeOffers
          /\ activeInvoices' = activeInvoices
          /\ transactions' = transactions]_vars

\* the data is no JSON, or a frame of an unrecognized kind, or a frame that
\* lacks a required field of its kind
Malformed(m) ==
    IF m = NotJson THEN TRUE
    ELSE CASE m.t = "OFFER" -> \/ UNDEF \in {m.id, m.skill, m.from}
                               \/ ~m.price.isNumber
           [] m.t = "ACCEPT" -> UNDEF \in {m.id, m.from}
           [] m.t = "PAY" -> UNDEF \in {m.id, m.tx, m.from}
           [] m.t = "CHAT" -> UNDEF \in {m.text, m.from}
           [] OTHER -> TRUE

\* C29: a frame that is not valid JSON, lacks a required field of its kind
\* (for example a CHAT without text) or carries an unrecognized kind is
\* dropped: it changes no hub state (no address or name is bound, no offer,
\* invoice or record is created), no frame is sent to any other connection,
\* and the sender's connection stays registered and open.
C29_MalformedDropped ==
    [][(last'.op = "message" /\ Malformed(last'.msg))
       => /\ clients' = clients
          /\ activeOffers' = activeOffers
          /\ activeInvoices' = activeInvoices
          /\ transactions' = transactions
          /\ \A k \in 1..Len(sent') : sent'[k].to = last'.ws
          /\ \E i \in 1..Len(clients') :
                clients'[i].ws = last'.ws /\ clients'[i].readyState = "OPEN"]_vars

----------------------------------------------------------------------------
(* Properties of the connections' life *)

\* C24: closing a connection, a connection error and the eviction by the
\* heartbeat sweep leave every open offer, every invoice and the transaction
\* log unchanged; an invoice stored before the connection of its buyer went
\* away is still settled by a PAY with from = buyer on a later connection.
C24_ClosingKeepsLedger ==
    [][/\ last'.op \in {"close", "error", "heartbeat"}
          => /\ activeOffers' = activeOffers
             /\ activeInvoices' = activeInvoices
             /\ transactions' = transactions
       /\ (/\ last'.op = "message"
           /\ PayValidated(last'.msg, last'.ws)
           /\ Has(orphaned, last'.msg.id)
           /\ orphaned[last'.msg.id] = "orphaned")
          => /\ Len(transactions') = Len(transactions) + 1
             /\ transactions'[Len(transactions')].id = last'.msg.id
             /\ transactions'[Len(transactions')].from = activeInvoices[last'.msg.id].buyer
             /\ ~Has(activeInvoices', last'.msg.id)]_vars

\* the PAY of A has settled o1 on a connection registered after the one
\* bound to A was closed, for an invoice stored before that
C24_Witness ==
    /\ Handled(last, "PAY")
    /\ last.msg = PayMsg("o1", "r1", "A")
    /\ Has(orphaned, "o1")
    /\ orphaned["o1"] = "settledLater"
    /\ Len(transactions) = 1
    /\ transactions[1].id = "o1"
    /\ transactions[1].from = "A"
    /\ ~Has(activeInvoices, "o1")

\* the frame is a valid OFFER, ACCEPT or PAY event: it is dispatched, passes
\* the validation of its kind and, an ACCEPT, names its sender
ValidEvent(m, ws) ==
    /\ Dispatched(m, ws)
    /\ m.t \in {"OFFER", "ACCEPT", "PAY"}
    /\ ~FailsValidation(m)
    /\ m.from # UNDEF

\* the system narrations among the frames `frames` that went to connection ws
Narrations(frames, ws) ==
    {k \in 1..Len(frames) :
        /\ frames[k].to = ws
        /\ frames[k].msg.t = "CHAT"
        /\ frames[k].msg.from = "system"}

\* C27 as stated: for every valid OFFER, ACCEPT and PAY event the hub makes
\* one CHAT narration with from = 'system' and every open connection,
\* observer or participant, receives it.
C27_NarrationToEveryone ==
    [][(last'.op = "message" /\ ValidEvent(last'.msg, last'.ws))
       => \A i \in 1..Len(clients') :
             clients'[i].readyState = "OPEN"
             => Cardinality(Narrations(sent', clients'[i].ws)) = 1]_vars

\* C27 amended: for every valid OFFER, ACCEPT and PAY event every open
\* connection other than the one that sent the frame, observer or
\* participant, receives one CHAT narration with from = 'system'; the sender
\* receives none.
C27_NarrationToOthers ==
    [][(last'.op = "message" /\ ValidEvent(last'.msg, last'.ws))
       => \A i \in 1..Len(clients') :
             clients'[i].readyState = "OPEN"
             => Cardinality(Narrations(sent', clients'[i].ws)) =
                   IF clients'[i].ws = last'.ws THEN 0 ELSE 1]_vars

\* the PAY of A has settled o1 and an observer has received its narration
C27_Witness ==
    /\ Handled(last, "PAY")
    /\ last.msg = PayMsg("o1", "r1", "A")
    /\ Len(transactions) = 1
    /\ Narrations(sent, last.ws) = {}
    /\ \E i \in 1..Len(clients) :
          /\ clients[i].ws # last.ws
          /\ clients[i].connectionType = "spectator"
          /\ clients[i].readyState = "OPEN"
          /\ Cardinality(Narrations(sent, clients[i].ws)) = 1

\* C28: every valid OFFER, ACCEPT and PAY frame and every CHAT frame (with
\* its text and its from) of a connection is delivered, with its fields
\* unchanged, to every open participant connection other than the one that
\* sent it.
C28_RelayedUnchanged ==
    [][(/\ last'.op = "message"
        /\ IF ValidEvent(last'.msg, last'.ws) THEN TRUE
           ELSE /\ Dispatched(last'.msg, last'.ws)
                /\ last'.msg.t = "CHAT"
                /\ last'.msg.text # UNDEF
                /\ last'.msg.from # UNDEF)
       => \A i \in 1..Len(clients') :
             (/\ clients'[i].connectionType = "agent"
              /\ clients'[i].readyState = "OPEN"
              /\ clients'[i].ws # last'.ws)
             => \E k \in 1..Len(sent') :
                   /\ sent'[k].to = clients'[i].ws
                   /\ sent'[k].msg = last'.msg]_vars

\* C30: a liveness sweep evicts exactly the registered connections that have
\* not acknowledged the probe of the previous sweep; every other connection,
\* one that acknowledged it or one registered since, is kept unchanged but
\* for its cleared liveness mark, and is probed again.
C30_SweepEvictsUnacked ==
    [][last'.op = "heartbeat"
       => LET kept == SelectSeq(clients, LAMBDA c : c.ws \notin unacked)
          IN /\ Len(clients') = Len(kept)
             /\ \A i \in 1..Len(kept) :
                   clients'[i] = [kept[i] EXCEPT !.isAlive = FALSE]
             /\ last'.terminated =
                   {clients[i].ws : i \in 1..Len(clients)} \cap unacked
             /\ last'.pinged = {kept[i].ws : i \in 1..Len(kept)}]_vars

\* one sweep evicted a silent connection and kept and probed another
C30_Witness ==
    /\ last.op = "heartbeat"
    /\ last.terminated = {1}
    /\ last.pinged = {2}
    /\ Len(clients) = 1
    /\ clients[1].ws = 2

\* C31: a connection that has sent a message since the last liveness sweep is
\* not evicted by the next sweep, even if it did not acknowledge the probe
\* (stated for the message that arrives last before the sweep).
C31_MessageCountsAsLive ==
    [][(last.op = "message" /\ Registered(last.ws) /\ last'.op = "heartbeat")
       => last.ws \notin last'.terminated]_vars

\* C32: a connection registered without a name hint takes the name of the
\* first CHAT it sends that matches the introduction pattern, whatever frames
\* it sent before, and a hinted connection keeps its hint.  The one hint and
\* the one introduced name of the chat model are both "Bob": a connection
\* whose name is not "Bob" had no hint and has not introduced itself yet.
C32_IntroductionSetsName ==
    [][/\ (/\ last'.op = "message"
           /\ last'.msg # NotJson
           /\ last'.msg.t = "CHAT"
           /\ last'.msg.text # UNDEF
           /\ introMatch(last'.msg.text) # UNDEF
           /\ Registered(last'.ws)
           /\ ClientOf(last'.ws).name # introMatch(last'.msg.text))
          => nameOrGenerated(clients', last'.ws, last'.msg.from)
                = introMatch(last'.msg.text)
       /\ \A i \in 1..Len(clients) :
             (clients[i].name = "Bob" /\ ClientIdx(clients', clients[i].ws) # 0)
                => clients'[ClientIdx(clients', clients[i].ws)].name = "Bob"]_vars

\* C33: a reset empties the open offers and the transaction log, sends the
\* system notice exactly once to every open connection, observer or
\* participant (a socket whose own send throws takes no frame), and to no
\* other, and leaves the connection table as it was: no connection closed, no
\* address or name changed.
C33_ResetClearsAndNotifies ==
    [][last'.op = "reset"
       => /\ activeOffers' = EmptyMap
          /\ transactions' = <<>>
          /\ clients' = clients
          /\ \A i \in 1..Len(clients) :
                (clients[i].readyState = "OPEN" /\ ~clients[i].sendThrows)
                   => Cardinality({k \in 1..Len(sent') :
                                      sent'[k].to = clients[i].ws}) = 1
          /\ \A k \in 1..Len(sent') :
                /\ sent'[k].msg = resetMsg
                /\ sent'[k].msg.t = "CHAT"
                /\ sent'[k].msg.from = "system"
                /\ \E i \in 1..Len(clients) :
                      /\ clients[i].ws = sent'[k].to
                      /\ clients[i].readyState = "OPEN"]_vars

\* the connection table with every socket taking its frames
Healthy(cs) == [i \in 1..Len(cs) |-> [cs[i] EXCEPT !.sendThrows = FALSE]]

\* the frames of `frames` that go to sockets of cs whose send does not throw
Reaching(frames, cs) ==
    SelectSeq(frames, LAMBDA f : \E i \in 1..Len(cs) :
                                    cs[i].ws = f.to /\ ~cs[i].sendThrows)

\* C34: a send that fails on one connection takes nothing from the others: a
\* frame handler and a reset deliver to every connection whose send works the
\* frames they deliver when no send fails, and make the same state changes.
C34_SendFailureIsolated ==
    [][/\ last'.op = "message"
          => LET H == onMessage([Hub EXCEPT !.clients = Healthy(clients)],
                                last'.msg, last'.ws)
             IN /\ sent' = Reaching(H.sent, clients)
                /\ Healthy(clients') = H.clients
                /\ activeOffers' = H.activeOffers
                /\ activeInvoices' = H.activeInvoices
                /\ transactions' = H.transactions
       /\ last'.op = "reset"
          => /\ sent' = Reaching(resetDeliveries(Healthy(clients)), clients)
             /\ activeOffers' = EmptyMap
             /\ transactions' = <<>>]_vars

\* C35: a frame handler and each sweep is one step whose result is a function
\* of the hub state and the frame alone, and the steps of the balance lookup
\* of a roster request (start, each balance, response) leave the connection
\* table, the open offers, the invoices and the transaction log as they were:
\* wherever the lookup's steps fall among the frames, the hub state is the
\* one the frames alone produce.
C35_LookupWritesNothing ==
    [][/\ last'.op \in {"agents", "balance", "agentsDone"}
          => UNCHANGED <<clients, activeOffers, activeInvoices, transactions>>
       /\ last'.op = "message"
          => LET H == onMessage(Hub, last'.msg, last'.ws)
             IN /\ roster' = roster
                /\ clients' = H.clients
                /\ activeOffers' = H.activeOffers
                /\ activeInvoices' = H.activeInvoices
                /\ transactions' = H.transactions
       /\ last'.op = "heartbeat"
          => /\ roster' = roster
             /\ clients' = heartbeat(clients)
             /\ UNCHANGED <<activeOffers, activeInvoices, transactions>>
       /\ last'.op = "cleanup"
          => /\ roster' = roster
             /\ activeInvoices' = cleanupExpiredInvoices(activeInvoices, now)
             /\ UNCHANGED <<clients, activeOffers, transactions>>]_vars

\* a balance arrived for a roster that the frames handled since its request
\* have made stale
C35_Witness ==
    /\ last.op = "balance"
    /\ roster.pending
    /\ roster.list # agentsList(clients)
    /\ Len(roster.list) = 1
    /\ Len(agentsList(clients)) = 2

\* C36: when the agent handles an OFFER of another address that is no
\* previous partner and its decision step answers yes, it sends an ACCEPT for
\* that offer id; and every ACCEPT it sends answers such an offer, never its
\* own and never one of a previous partner.
C36_AgentAcceptsNewPartner ==
    [][(last'.op = "agentReceives" /\ last'.msg.t = "OFFER")
       => LET offer == last'.msg
              fresh == /\ offer.from # AgentAddress
                       /\ offer.from \notin agent.previousPartners
              accept == AcceptMsg(offer.id, AgentAddress)
          IN /\ (fresh /\ last'.answer = "yes")
                  => agent'.outbox = Append(agent.outbox, accept)
             /\ ~(fresh /\ last'.answer = "yes") => agent'.outbox = agent.outbox]_vars

\* C38: whatever the order in which the hub and the offering agent handle the
\* ACCEPT frames of several agents for its offer and its PAY, the record of a
\* payment of the agent names as `to` the address the agent paid: the from of
\* the ACCEPT that started the payment.
C38_RecordNamesPaidAddress ==
    \A k \in 1..Len(transactions) :
       \A n \in 1..Len(agent.payments) :
          (transactions[k].txHash = agent.payments[n].tx
           /\ transactions[k].id = agent.payments[n].id)
             => transactions[k].to = agent.payments[n].to

\* C37: whether a PAY on a participant connection settles depends on its id,
\* from and tx and on the stored invoice alone: with an invoice stored for the
\* id, from equal to its buyer and a non-empty tx, the invoice is settled and
\* the record holds tx as supplied, whatever address the connection is bound
\* to; otherwise nothing is settled.
C37_SettlementIgnoresSender ==
    [][(/\ last'.op = "message"
        /\ last'.msg # NotJson
        /\ last'.msg.t = "PAY"
        /\ ClientOf(last'.ws).connectionType = "agent")
       => LET pay == last'.msg IN
          IF /\ Has(activeInvoices, pay.id)
             /\ pay.from = activeInvoices[pay.id].buyer
             /\ pay.tx \notin {UNDEF, ""}
          THEN /\ ~Has(activeInvoices', pay.id)
               /\ transactions' =
                     Append(transactions,
                            [id |-> pay.id, timestamp |-> now,
                             from |-> activeInvoices[pay.id].buyer,
                             to |-> activeInvoices[pay.id].seller,
                             amount |-> activeInvoices[pay.id].price,
                             txHash |-> pay.tx, status |-> "completed"])
          ELSE /\ activeInvoices' = activeInvoices
               /\ transactions' = transactions]_vars

\* a PAY from the buyer's address settled on a connection bound to another
\* address
C37_Witness ==
    /\ last.op = "message"
    /\ last.msg.t = "PAY"
    /\ Registered(last.ws)
    /\ ClientOf(last.ws).address \notin {UNDEF, last.msg.from}
    /\ transactions # <<>>
    /\ transactions[Len(transactions)].txHash = last.msg.tx
    /\ transactions[Len(transactions)].from = last.msg.from
    /\ ~Has(activeInvoices, last.msg.id)

\* C39: a reset leaves the invoice table as it is, and a PAY that is valid
\* for a stored invoice whose id has no open offer (as after a reset) settles
\* the invoice and appends its record.
C39_ResetKeepsInvoices ==
    [][/\ last'.op = "reset" => activeInvoices' = activeInvoices
       /\ (/\ last'.op = "message"
           /\ last'.msg.t = "PAY"
           /\ ClientOf(last'.ws).connectionType = "agent"
           /\ Has(activeInvoices, last'.msg.id)
           /\ ~Has(activeOffers, last'.msg.id)
           /\ last'.msg.from = activeInvoices[last'.msg.id].buyer
           /\ last'.msg.tx \notin {UNDEF, ""})
          => /\ ~Has(activeInvoices', last'.msg.id)
             /\ Len(transactions') = Len(transactions) + 1
             /\ transactions'[Len(transactions')].id = last'.msg.id
             /\ transactions'[Len(transactions')].txHash = last'.msg.tx]_vars

\* a reset has emptied the open offers and the invoice of o1 is still stored,
\* with a participant connection open to pay it
C39_Witness ==
    /\ last.op = "reset"
    /\ activeOffers = EmptyMap
    /\ Has(activeInvoices, "o1")
    /\ \E i \in 1..Len(clients) : /\ clients[i].connectionType = "agent"
                                  /\ clients[i].readyState = "OPEN"

\* C40: a CHAT frame that a client sends with from = 'system' is not relayed:
\* no connection receives through it a CHAT with from = 'system', so every
\* such frame a connection receives was made by the hub.
C40_SystemChatOnlyFromHub ==
    [][(/\ last'.op = "message"
        /\ last'.msg # NotJson
        /\ last'.msg.t = "CHAT"
        /\ last'.msg.from = "system")
       => \A k \in 1..Len(sent') :
             ~(/\ sent'[k].to # last'.ws
               /\ sent'[k].msg.t = "CHAT"
               /\ sent'[k].msg.from = "system")]_vars

====
